---- MODULE Spec2Model ----
(***************************************************************************)
(* AdvancedConfigParser: the lazy, caching evaluator of option             *)
(* expressions (LazyEval), the reference resolver over the section tree,   *)
(* and the expression serializer (ast_to_src).                             *)
(*                                                                         *)
(* Expression nodes are python ast nodes, values are python objects; both  *)
(* are records of one shape each, so that any two can be compared.         *)
(***************************************************************************)
EXTENDS Integers, Sequences, FiniteSets, TLC

VARIABLES
    ast_node,   \* Option -> its _acp_ast_node (the current definition)
    cache,      \* LazyEval.cache: Option -> slot (Empty or Cached(value))
    written,    \* history: Option -> its last assignment (an ast node or a value)
    last,       \* history: the last operation and what it returned
    evaluated,  \* history: Options whose evaluator ran during the last operation
    pc,         \* position of the round-trip pipeline (SpecExpr)
    text,       \* the text dump() wrote: the tokens of every option line
    first,      \* what the read of the option under test returned before the dump
    tree        \* the objects parse_stream and _acp_add_child build (SpecTree)

vars == <<ast_node, cache, written, last, evaluated, pc, text, first, tree>>

----------------------------------------------------------------------------
(* ast nodes *)

\* s: the characters of a string constant
Node(kind, id, n, ops, args) ==
    [kind |-> kind, id |-> id, n |-> n, ops |-> ops, args |-> args, s |-> <<>>]

Num(n) == Node("Num", "", n, <<>>, <<>>)
NameConstant(c) == Node("NameConstant", c, 0, <<>>, <<>>)
Name(id) == Node("Name", id, 0, <<>>, <<>>)
Attribute(value, attr) == Node("Attribute", attr, 0, <<>>, <<value>>)
UnaryOp(op, operand) == Node("UnaryOp", op, 0, <<>>, <<operand>>)
BinOp(left, op, right) == Node("BinOp", op, 0, <<>>, <<left, right>>)
BoolOp(op, values) == Node("BoolOp", op, 0, <<>>, values)
Compare(left, ops, comparators) == Node("Compare", "", 0, ops, <<left>> \o comparators)
IfExp(test, body, orelse) == Node("IfExp", "", 0, <<>>, <<test, body, orelse>>)
List(elts) == Node("List", "", 0, <<>>, elts)
Tuple(elts) == Node("Tuple", "", 0, <<>>, elts)
Dict(keys, values) == Node("Dict", "", Len(keys), <<>>, keys \o values)
Call(func, args) == Node("Call", func, 0, <<>>, args)
Str(s) == [Node("Str", "", 0, <<>>, <<>>) EXCEPT !.s = s]
Load == Node("Load", "", 0, <<>>, <<>>)
NoNode == Node("None", "", 0, <<>>, <<>>)

DictKeys(node) == SubSeq(node.args, 1, node.n)
DictValues(node) == SubSeq(node.args, node.n + 1, Len(node.args))

\* ast.iter_child_nodes: the fields in order; List and Tuple end with ctx
iter_child_nodes(node) ==
    IF node.kind \in {"List", "Tuple"} THEN node.args \o <<Load>> ELSE node.args

----------------------------------------------------------------------------
(* python values *)

\* chars: the characters of a str
Val(t, n, s) == [t |-> t, n |-> n, s |-> s, chars |-> <<>>]
IntV(n) == Val("int", n, <<>>)
BoolV(b) == Val("bool", IF b THEN 1 ELSE 0, <<>>)
NoneV == Val("NoneType", 0, <<>>)
ListV(s) == Val("list", 0, s)
TupleV(s) == Val("tuple", 0, s)
DictV(pairs) == Val("dict", 0, pairs)
StrV(chars) == [Val("str", 0, <<>>) EXCEPT !.chars = chars]

IsNumber(v) == v.t \in {"int", "bool"}
IsSeq(v) == v.t \in {"list", "tuple"}

\* bool(v)
Truthy(v) ==
    CASE IsNumber(v) -> v.n # 0
      [] v.t \in {"list", "tuple", "dict"} -> Len(v.s) > 0
      [] v.t = "NoneType" -> FALSE
      [] v.t = "str" -> Len(v.chars) > 0
      [] OTHER -> TRUE

RECURSIVE PyEq(_, _)
\* a == b
PyEq(a, b) ==
    CASE IsNumber(a) /\ IsNumber(b) -> a.n = b.n
      [] IsSeq(a) /\ a.t = b.t ->
            /\ Len(a.s) = Len(b.s)
            /\ \A i \in 1..Len(a.s) : PyEq(a.s[i], b.s[i])
      [] a.t = "dict" /\ b.t = "dict" ->
            /\ Len(a.s) = Len(b.s)
            /\ \A i \in 1..Len(a.s) : \E j \in 1..Len(b.s) :
                  PyEq(a.s[i].s[1], b.s[j].s[1]) /\ PyEq(a.s[i].s[2], b.s[j].s[2])
      [] a.t = "section" /\ b.t = "section" -> a.n = b.n
      [] a.t = "NoneType" /\ b.t = "NoneType" -> TRUE
      [] a.t = "str" /\ b.t = "str" -> a.chars = b.chars
      [] OTHER -> FALSE

RECURSIVE Hashable(_)
\* hash(v) does not raise
Hashable(v) ==
    CASE v.t \in {"list", "dict"} -> FALSE
      [] v.t = "tuple" -> \A i \in 1..Len(v.s) : Hashable(v.s[i])
      [] OTHER -> TRUE

\* the result of an operator application: a value or a raised exception
OpOk(v) == [ok |-> TRUE, val |-> v, err |-> ""]
OpErr(e) == [ok |-> FALSE, val |-> NoneV, err |-> e]

RECURSIVE PyLt(_, _)
\* a < b
PyLt(a, b) ==
    IF IsNumber(a) /\ IsNumber(b) THEN OpOk(BoolV(a.n < b.n))
    ELSE IF IsSeq(a) /\ a.t = b.t THEN
        LET diff == {i \in 1..Len(a.s) : i <= Len(b.s) /\ ~PyEq(a.s[i], b.s[i])}
        IN  IF diff = {} THEN OpOk(BoolV(Len(a.s) < Len(b.s)))
            ELSE LET i == CHOOSE k \in diff : \A m \in diff : k <= m
                 IN  PyLt(a.s[i], b.s[i])
    ELSE OpErr("TypeError")

RECURSIVE Repeat(_, _)
Repeat(s, n) == IF n <= 0 THEN <<>> ELSE s \o Repeat(s, n - 1)

operator_add(a, b) ==
    IF IsNumber(a) /\ IsNumber(b) THEN OpOk(IntV(a.n + b.n))
    ELSE IF IsSeq(a) /\ a.t = b.t THEN OpOk(Val(a.t, 0, a.s \o b.s))
    ELSE OpErr("TypeError")

operator_sub(a, b) ==
    IF IsNumber(a) /\ IsNumber(b) THEN OpOk(IntV(a.n - b.n))
    ELSE OpErr("TypeError")

operator_mul(a, b) ==
    IF IsNumber(a) /\ IsNumber(b) THEN OpOk(IntV(a.n * b.n))
    ELSE IF IsSeq(a) /\ IsNumber(b) THEN OpOk(Val(a.t, 0, Repeat(a.s, b.n)))
    ELSE IF IsNumber(a) /\ IsSeq(b) THEN OpOk(Val(b.t, 0, Repeat(b.s, a.n)))
    ELSE OpErr("TypeError")

\* the ops table of the BinOp branch, for the operators modelled
BinOps == {"Add", "Sub", "Mult"}
ApplyBinOp(op, lhs, rhs) ==
    CASE op = "Add" -> operator_add(lhs, rhs)
      [] op = "Sub" -> operator_sub(lhs, rhs)
      [] op = "Mult" -> operator_mul(lhs, rhs)

\* astOp2FuncOp of the Compare branch, for the operators modelled
CmpOps == {"Eq", "Lt"}
ApplyCmpOp(op, a, b) ==
    CASE op = "Eq" -> OpOk(BoolV(PyEq(a, b)))
      [] op = "Lt" -> PyLt(a, b)

\* the whitelist of the Call branch
Whitelist == {"abs", "all", "any", "bin", "bool", "chr", "complex", "dict",
              "divmod", "enumerate", "float", "hex", "int", "len", "list",
              "max", "min", "oct", "ord", "pow", "range", "reversed", "round",
              "set", "sorted", "str", "sum", "tuple", "type", "unichr", "zip"}

\* builtins.__dict__[name](*args), for the builtins modelled: len and bool
ApplyBuiltin(name, args) ==
    CASE name = "len" ->
            IF Len(args) = 1 /\ args[1].t \in {"list", "tuple", "dict"}
            THEN OpOk(IntV(Len(args[1].s)))
            ELSE OpErr("TypeError")
      [] name = "bool" ->
            IF Len(args) = 0 THEN OpOk(BoolV(FALSE))
            ELSE IF Len(args) = 1 THEN OpOk(BoolV(Truthy(args[1])))
            ELSE OpErr("TypeError")
      [] OTHER -> OpErr("TypeError")

\* dict insertion d[k] = v: an equal key keeps its place and takes the value.
\* A dict's items are kept in insertion order, each a (key, value) pair.
DictInsert(pairs, k, v) ==
    IF \E i \in 1..Len(pairs) : PyEq(pairs[i].s[1], k)
    THEN [i \in 1..Len(pairs) |->
            IF PyEq(pairs[i].s[1], k) THEN TupleV(<<pairs[i].s[1], v>>) ELSE pairs[i]]
    ELSE Append(pairs, TupleV(<<k, v>>))

----------------------------------------------------------------------------
(* The configuration tree.  Its shape is the one parse_stream builds from

       x = 1
       [A]
       x = 2
       y = x
       [[foo]]
       z = 3
       [foo]
       x = 4

   Sections and Options are named by identifiers; acp_name and acp_parent
   are the fields _acp_name and _acp_parent that _acp_add_child sets. *)

Sections == {"root", "A", "F", "G"}
Options == {"x", "Ax", "Ay", "Gz", "Fx"}

acp_name == [root |-> "<global>", A |-> "A", F |-> "foo", G |-> "foo",
             x |-> "x", Ax |-> "x", Ay |-> "y", Gz |-> "z", Fx |-> "x"]

acp_parent == [root |-> "None", A |-> "root", F |-> "root", G |-> "A",
               x |-> "root", Ax |-> "A", Ay |-> "A", Gz |-> "G", Fx |-> "F"]

SecIndex == [root |-> 0, A |-> 1, F |-> 2, G |-> 3]
SectionV(sec) == Val("section", SecIndex[sec], <<>>)
SectionOf(v) == CHOOSE sec \in Sections : SecIndex[sec] = v.n

\* the entry of section.__dict__ that _acp_add_child made for a child's name
HasChild(sec, attr) ==
    \E c \in Sections \cup Options : acp_parent[c] = sec /\ acp_name[c] = attr
ChildOf(sec, attr) ==
    CHOOSE c \in Sections \cup Options : acp_parent[c] = sec /\ acp_name[c] = attr

----------------------------------------------------------------------------
(* cache slots, and the results the evaluator passes around *)

Empty == [full |-> FALSE, val |-> NoneV]
Cached(v) == [full |-> TRUE, val |-> v]

\* The evaluator reads the definitions and reads and fills the cache slots;
\* env is that state, threaded through every call: nodes (the _acp_ast_node
\* of every Option), cache (LazyEval.cache) and evald (the Options whose
\* expression has been handed to _acp_eval).
Env(nodes, slots) == [nodes |-> nodes, cache |-> slots, evald |-> {}]

\* st: "ok" (val, refs returned), "none" (the call returned None), "err"
Ok(v, refs, env) == [st |-> "ok", val |-> v, refs |-> refs, err |-> "", env |-> env]
NoneR(env) == [st |-> "none", val |-> NoneV, refs |-> FALSE, err |-> "", env |-> env]
Err(e, env) == [st |-> "err", val |-> NoneV, refs |-> FALSE, err |-> e, env |-> env]

----------------------------------------------------------------------------
(* ast.literal_eval *)

LitOk(v) == [st |-> "ok", val |-> v]
LitErr(e) == [st |-> e, val |-> NoneV]

RECURSIVE literal_convert(_)
RECURSIVE literal_convert_seq(_, _, _)
RECURSIVE literal_convert_dict(_, _, _)

\* tuple(map(_convert, elts)): the first element that fails raises
literal_convert_seq(elts, i, acc) ==
    IF i > Len(elts) THEN LitOk(ListV(acc))
    ELSE LET r == literal_convert(elts[i])
         IN  IF r.st # "ok" THEN r
             ELSE literal_convert_seq(elts, i + 1, Append(acc, r.val))

\* dict(zip(map(_convert, keys), map(_convert, values)))
literal_convert_dict(node, i, acc) ==
    IF i > node.n THEN LitOk(DictV(acc))
    ELSE LET k == literal_convert(DictKeys(node)[i])
             v == literal_convert(DictValues(node)[i])
         IN  IF k.st # "ok" THEN k
             ELSE IF v.st # "ok" THEN v
             ELSE IF ~Hashable(k.val) THEN LitErr("TypeError")
             ELSE literal_convert_dict(node, i + 1, DictInsert(acc, k.val, v.val))

literal_convert(node) ==
    CASE node.kind = "Num" -> LitOk(IntV(node.n))
      [] node.kind = "Str" -> LitOk(StrV(node.s))
      [] node.kind = "NameConstant" ->
            IF node.id = "None" THEN LitOk(NoneV) ELSE LitOk(BoolV(node.id = "True"))
      [] node.kind = "Tuple" ->
            LET r == literal_convert_seq(node.args, 1, <<>>)
            IN  IF r.st = "ok" THEN LitOk(TupleV(r.val.s)) ELSE r
      [] node.kind = "List" -> literal_convert_seq(node.args, 1, <<>>)
      [] node.kind = "Dict" -> literal_convert_dict(node, 1, <<>>)
      [] node.kind = "UnaryOp" ->
            \* _convert_signed_num: + or - applied to a number constant
            IF node.id \in {"UAdd", "USub"} /\ node.args[1].kind = "Num"
            THEN LitOk(IntV(IF node.id = "USub" THEN 0 - node.args[1].n
                                                ELSE node.args[1].n))
            ELSE LitErr("ValueError")
      [] OTHER -> LitErr("ValueError")

literal_eval(node) == literal_convert(node)

----------------------------------------------------------------------------
(* LazyEval: _acp_eval, _acp_resolve_reference, __get__ *)

RECURSIVE acp_eval(_, _, _, _)
RECURSIVE eval_children(_, _, _, _, _, _, _)
RECURSIVE eval_args(_, _, _, _, _, _, _)
RECURSIVE eval_compare(_, _, _, _, _, _, _)
RECURSIVE eval_boolop(_, _, _, _, _, _)
RECURSIVE acp_resolve_reference(_, _, _, _)
RECURSIVE traverse(_, _, _, _, _)
RECURSIVE LazyEval_get(_, _, _)

\* the dotted reference of a Name or Attribute node, split at the dots
RECURSIVE RefAttrs(_)
RefAttrs(node) ==
    IF node.kind = "Attribute" THEN Append(RefAttrs(node.args[1]), node.id)
    ELSE <<node.id>>

\* Unpacking "val, has_refs = self._acp_eval(...)": None cannot be unpacked
Unpack(r) == IF r.st = "none" THEN Err("TypeError", r.env) ELSE r

\* the loop over ast.iter_child_nodes of a List, Tuple or Dict node: a child
\* whose evaluation returns None is skipped, has_refs is the flag of the last
\* child that was not
eval_children(env, stack, parent, children, i, vals, has_refs) ==
    IF i > Len(children) THEN Ok(ListV(vals), has_refs, env)
    ELSE LET tmp == acp_eval(env, stack, parent, children[i])
         IN  IF tmp.st = "err" THEN tmp
             ELSE IF tmp.st = "none"
             THEN eval_children(tmp.env, stack, parent, children, i + 1, vals, has_refs)
             ELSE eval_children(tmp.env, stack, parent, children, i + 1,
                                Append(vals, tmp.val), tmp.refs)

\* the loop over node.args of a Call node
eval_args(env, stack, parent, arg_nodes, i, args, has_refs) ==
    IF i > Len(arg_nodes) THEN Ok(ListV(args), has_refs, env)
    ELSE LET r == Unpack(acp_eval(env, stack, parent, arg_nodes[i]))
         IN  IF r.st = "err" THEN r
             ELSE eval_args(r.env, stack, parent, arg_nodes, i + 1,
                            Append(args, r.val), has_refs \/ r.refs)

\* the loop over zip(node.ops, node.comparators) of a Compare node;
\* node.args is <<left>> \o comparators
eval_compare(env, stack, parent, node, i, left, has_refs) ==
    IF i > Len(node.ops) THEN Ok(BoolV(TRUE), has_refs, env)
    ELSE LET r == Unpack(acp_eval(env, stack, parent, node.args[i + 1]))
         IN  IF r.st = "err" THEN r
             ELSE LET c == ApplyCmpOp(node.ops[i], left, r.val)
                  IN  IF ~c.ok THEN Err(c.err, r.env)
                      ELSE IF Truthy(c.val)
                      THEN eval_compare(r.env, stack, parent, node, i + 1, r.val,
                                        has_refs \/ r.refs)
                      ELSE Ok(BoolV(FALSE), has_refs \/ r.refs, r.env)

\* the loops over node.values of a BoolOp node
eval_boolop(env, stack, parent, node, i, has_refs) ==
    IF i > Len(node.args) THEN Ok(BoolV(node.id = "And"), has_refs, env)
    ELSE LET r == Unpack(acp_eval(env, stack, parent, node.args[i]))
         IN  IF r.st = "err" THEN r
             ELSE IF node.id = "And" /\ ~Truthy(r.val)
             THEN Ok(BoolV(FALSE), has_refs \/ r.refs, r.env)
             ELSE IF node.id = "Or" /\ Truthy(r.val)
             THEN Ok(BoolV(TRUE), has_refs \/ r.refs, r.env)
             ELSE eval_boolop(r.env, stack, parent, node, i + 1, has_refs \/ r.refs)

eval_list(env, stack, parent, node) ==
    LET r == eval_children(env, stack, parent, iter_child_nodes(node), 1, <<>>, FALSE)
    IN  IF r.st # "ok" THEN r
        ELSE IF node.kind = "Tuple" THEN Ok(TupleV(r.val.s), r.refs, r.env)
        ELSE r

eval_binop(env, stack, parent, node) ==
    LET l == Unpack(acp_eval(env, stack, parent, node.args[1]))
    IN  IF l.st = "err" THEN l
        ELSE LET r == Unpack(acp_eval(l.env, stack, parent, node.args[2]))
             IN  IF r.st = "err" THEN r
                 ELSE IF node.id \notin BinOps THEN Err("SyntaxError", r.env)
                 ELSE LET v == ApplyBinOp(node.id, l.val, r.val)
                      IN  IF v.ok THEN Ok(v.val, l.refs \/ r.refs, r.env)
                          ELSE Err(v.err, r.env)

\* a function name outside the whitelist falls through the if without a
\* return: the call evaluates to None
eval_call(env, stack, parent, node) ==
    IF node.id \notin Whitelist THEN NoneR(env)
    ELSE LET a == eval_args(env, stack, parent, node.args, 1, <<>>, FALSE)
         IN  IF a.st = "err" THEN a
             ELSE LET v == ApplyBuiltin(node.id, a.val.s)
                  IN  IF v.ok THEN Ok(v.val, a.refs, a.env) ELSE Err(v.err, a.env)

\* a conditional that evaluates both branches before it selects one
eval_ifexp_both(env, stack, parent, node) ==
    LET t == Unpack(acp_eval(env, stack, parent, node.args[1]))
    IN  IF t.st = "err" THEN t
        ELSE LET b == Unpack(acp_eval(t.env, stack, parent, node.args[2]))
             IN  IF b.st = "err" THEN b
                 ELSE LET o == Unpack(acp_eval(b.env, stack, parent, node.args[3]))
                      IN  IF o.st = "err" THEN o
                          ELSE IF Truthy(t.val)
                          THEN Ok(b.val, b.refs \/ t.refs, o.env)
                          ELSE Ok(o.val, o.refs \/ t.refs, o.env)

eval_ifexp(env, stack, parent, node) ==
    LET t == Unpack(acp_eval(env, stack, parent, node.args[1]))
    IN  IF t.st = "err" THEN t
        ELSE LET r == Unpack(acp_eval(t.env, stack, parent,
                                      IF Truthy(t.val) THEN node.args[2]
                                                       ELSE node.args[3]))
             IN  IF r.st = "err" THEN r
                 ELSE Ok(r.val, r.refs \/ t.refs, r.env)

acp_eval(env, stack, parent, node) ==
    LET lit == literal_eval(node)
    IN  IF lit.st = "ok" THEN Ok(lit.val, FALSE, env)
        ELSE IF lit.st # "ValueError" THEN Err(lit.st, env)
        ELSE CASE node.kind \in {"Name", "Attribute"} ->
                    LET r == acp_resolve_reference(env, stack, RefAttrs(node), parent)
                    IN  IF r.st = "ok" THEN Ok(r.val, TRUE, r.env) ELSE r
               [] node.kind \in {"List", "Tuple", "Dict"} ->
                    eval_list(env, stack, parent, node)
               [] node.kind = "BinOp" -> eval_binop(env, stack, parent, node)
               [] node.kind = "Call" -> eval_call(env, stack, parent, node)
               [] node.kind = "IfExp" -> eval_ifexp(env, stack, parent, node)
               [] node.kind = "Compare" ->
                    LET l == Unpack(acp_eval(env, stack, parent, node.args[1]))
                    IN  IF l.st = "err" THEN l
                        ELSE eval_compare(l.env, stack, parent, node, 1, l.val, l.refs)
               [] node.kind = "BoolOp" -> eval_boolop(env, stack, parent, node, 1, FALSE)
               [] node.kind = "Load" -> NoneR(env)
               [] OTHER -> Err("RuntimeError", env)

\* getattr(obj, attr) for each attr in turn.  On a Section it is
\* Section.__getattribute__: a child Option yields its _acp_value (a read of
\* that Option), a child Section itself; any other name, and any name on a
\* value that is not a Section, raises AttributeError.
traverse(env, stack, obj, attrs, i) ==
    IF i > Len(attrs) THEN Ok(obj, TRUE, env)
    ELSE IF obj.t # "section" \/ ~HasChild(SectionOf(obj), attrs[i])
    THEN Err("AttributeError", env)
    ELSE LET c == ChildOf(SectionOf(obj), attrs[i])
         IN  IF c \in Sections THEN traverse(env, stack, SectionV(c), attrs, i + 1)
             ELSE LET r == LazyEval_get(env, stack, c)
                  IN  IF r.st = "err" THEN r
                      ELSE traverse(r.env, stack, r.val, attrs, i + 1)

\* a resolver that binds the first segment in the nearest scope that has a
\* child of that name and resolves the rest of the reference from there
RECURSIVE resolve_first_segment(_, _, _, _)
resolve_first_segment(env, stack, attrs, parent) ==
    IF parent = "None" THEN Err("AttributeError", env)
    ELSE IF HasChild(parent, attrs[1])
    THEN traverse(env, stack, SectionV(parent), attrs, 1)
    ELSE resolve_first_segment(env, stack, attrs, acp_parent[parent])

\* walk up the tree until the complete reference resolves; an AttributeError
\* or KeyError raised anywhere under the try moves on to the parent
acp_resolve_reference(env, stack, attrs, parent) ==
    IF parent = "None" THEN Err("AttributeError", env)
    ELSE LET r == traverse(env, stack, SectionV(parent), attrs, 1)
         IN  IF r.st = "err" /\ r.err \in {"KeyError", "AttributeError"}
             THEN acp_resolve_reference(r.env, stack, attrs, acp_parent[parent])
             ELSE r

\* a __get__ that never keeps the value it evaluated
LazyEval_get_uncached(env, stack, instance) ==
    IF env.cache[instance].full THEN Ok(env.cache[instance].val, FALSE, env)
    ELSE IF instance \in stack THEN Err("RecursionError", env)
    ELSE Unpack(acp_eval([env EXCEPT !.evald = @ \cup {instance}],
                         stack \cup {instance},
                         acp_parent[instance], env.nodes[instance]))

\* LazyEval.__get__(instance).  stack holds the Options whose __get__ is
\* running: entering one of them again never returns, python ends the
\* recursion with a RecursionError.
LazyEval_get(env, stack, instance) ==
    IF env.cache[instance].full THEN Ok(env.cache[instance].val, FALSE, env)
    ELSE IF instance \in stack THEN Err("RecursionError", env)
    ELSE LET r == Unpack(acp_eval([env EXCEPT !.evald = @ \cup {instance}],
                                  stack \cup {instance},
                                  acp_parent[instance], env.nodes[instance]))
         IN  IF r.st = "err" THEN r
             ELSE IF ~r.refs
             THEN Ok(r.val, FALSE, [r.env EXCEPT !.cache[instance] = Cached(r.val)])
             ELSE r

\* a __set__ that replaces the definition and leaves the slot as it is
LazyEval_set_node_keeps_slot(nodes, slots, instance, value) ==
    [nodes |-> [nodes EXCEPT ![instance] = value], cache |-> slots]

\* LazyEval.__set__(instance, value): value is an ast node ...
LazyEval_set_node(nodes, slots, instance, value) ==
    [nodes |-> [nodes EXCEPT ![instance] = value],
     cache |-> [slots EXCEPT ![instance] = Empty]]

\* a __set__ that makes the static value the definition as well
LazyEval_set_static_as_node(nodes, slots, instance, value) ==
    [nodes |-> [nodes EXCEPT ![instance] = Num(value.n)],
     cache |-> [slots EXCEPT ![instance] = Cached(value)]]

\* ... or a static value
LazyEval_set_static(nodes, slots, instance, value) ==
    [nodes |-> nodes, cache |-> [slots EXCEPT ![instance] = Cached(value)]]

----------------------------------------------------------------------------
(* ast_to_src: the source text of a node.  The text is kept as the sequence
   of python tokens it consists of (blanks separate tokens and are dropped). *)

\* chars: the characters of a string literal, its quotes included
Tok(t, s, n) == [t |-> t, s |-> s, n |-> n, chars |-> <<>>]
StrTok(chars) == [Tok("STRING", "", 0) EXCEPT !.chars = chars]
OpTok(s) == Tok("OP", s, 0)
NameTok(s) == Tok("NAME", s, 0)
NumTok(n) == Tok("NUMBER", "", n)

\* RuntimeError("unhandled node"): the marker stands in the text in place of
\* the node, and a text that holds it is no text at all
Unhandled == <<Tok("ERROR", "unhandled node", 0)>>
Sym(s) == <<OpTok(s)>>
Word(s) == <<NameTok(s)>>

UnaryOpSrc == [Invert |-> "~", Not |-> "!", UAdd |-> "+", USub |-> "-"]
BinOpSrc == [Add |-> "+", Sub |-> "-", Mult |-> "*"]
CmpOpSrc == [Eq |-> "==", Lt |-> "<"]

\* re.search(r"(?<!\\)" + q, s): a q that no backslash stands right before
Unescaped(s, q) ==
    \E i \in 1..Len(s) : s[i] = q /\ (i = 1 \/ s[i - 1] # "\\")

\* the message of the RuntimeError names the field {s} and hands format() a
\* positional argument: building the message raises KeyError
Ambiguous == <<Tok("ERROR", "KeyError", 0)>>

quote_str(s) ==
    IF Unescaped(s, "'") /\ Unescaped(s, "\"") THEN Ambiguous
    ELSE LET quote == IF ~Unescaped(s, "'") THEN "'" ELSE "\""
             quotation == IF \E i \in 1..Len(s) : s[i] = "\n"
                          THEN <<quote, quote, quote>> ELSE <<quote>>
         IN  <<StrTok(quotation \o s \o quotation)>>

RECURSIVE ast_to_src(_)
RECURSIVE src_join(_, _, _)
RECURSIVE src_dict_items(_, _)
RECURSIVE src_compare_rest(_, _)

\* sep.join(ast_to_src(n) for n in nodes), from the i-th node on
src_join(nodes, i, sep) ==
    IF i > Len(nodes) THEN <<>>
    ELSE IF i = Len(nodes) THEN ast_to_src(nodes[i])
    ELSE ast_to_src(nodes[i]) \o sep \o src_join(nodes, i + 1, sep)

\* "k: v, k: v", from the i-th pair on
src_dict_items(node, i) ==
    ast_to_src(DictKeys(node)[i]) \o Sym(":") \o ast_to_src(DictValues(node)[i])
        \o (IF i = node.n THEN <<>> ELSE Sym(",") \o src_dict_items(node, i + 1))

\* " op right" for the i-th comparator on
src_compare_rest(node, i) ==
    IF i > Len(node.ops) THEN <<>>
    ELSE Sym(CmpOpSrc[node.ops[i]]) \o ast_to_src(node.args[i + 1])
            \o src_compare_rest(node, i + 1)

src_ifexp(node) ==
    ast_to_src(node.args[2]) \o Word("if") \o ast_to_src(node.args[1])
        \o Word("else") \o ast_to_src(node.args[3])

src_binop(node) ==
    Sym("(") \o ast_to_src(node.args[1]) \o Sym(BinOpSrc[node.id])
        \o ast_to_src(node.args[2]) \o Sym(")")

src_boolop(node) ==
    Sym("(") \o src_join(node.args, 1, Word(IF node.id = "And" THEN "and" ELSE "or"))
        \o Sym(")")

src_compare(node) ==
    Sym("(") \o ast_to_src(node.args[1]) \o src_compare_rest(node, 1) \o Sym(")")

ast_to_src(node) ==
    CASE node.kind = "Num" -> <<NumTok(node.n)>>
      [] node.kind = "UnaryOp" -> Sym(UnaryOpSrc[node.id]) \o ast_to_src(node.args[1])
      [] node.kind = "BinOp" -> src_binop(node)
      [] node.kind = "Name" -> Word(node.id)
      [] node.kind = "Str" -> quote_str(node.s)
      [] node.kind = "Attribute" -> ast_to_src(node.args[1]) \o Sym(".") \o Word(node.id)
      [] node.kind = "Call" ->
            Word(node.id) \o Sym("(") \o src_join(node.args, 1, Sym(",")) \o Sym(")")
      [] node.kind = "List" -> Sym("[") \o src_join(node.args, 1, Sym(",")) \o Sym("]")
      [] node.kind = "Tuple" ->
            IF Len(node.args) = 1
            THEN Sym("(") \o ast_to_src(node.args[1]) \o Sym(",") \o Sym(")")
            ELSE Sym("(") \o src_join(node.args, 1, Sym(",")) \o Sym(")")
      [] node.kind = "Dict" ->
            IF node.n = 0 THEN Sym("{") \o Sym("}")
            ELSE Sym("{") \o src_dict_items(node, 1) \o Sym("}")
      [] node.kind = "IfExp" -> src_ifexp(node)
      [] node.kind = "BoolOp" -> src_boolop(node)
      [] node.kind = "Compare" -> src_compare(node)
      [] node.kind = "NameConstant" -> Word(node.id)
      [] OTHER -> Unhandled

\* the exception of the first node that fails, in rendering order
SrcError(toks) ==
    LET failed == {i \in 1..Len(toks) : toks[i].t = "ERROR"}
        i == CHOOSE j \in failed : \A k \in failed : j <= k
    IN  IF toks[i].s = "KeyError" THEN "KeyError" ELSE "RuntimeError"

\* a text, or the failure of ast_to_src
SrcText(toks) ==
    [ok |-> \A i \in 1..Len(toks) : toks[i].t # "ERROR", toks |-> toks]

\* Option._acp_get_raw_value
acp_get_raw_value(nodes, o) == SrcText(ast_to_src(nodes[o]))

----------------------------------------------------------------------------
(* ast.parse of the text of an option line, "name = text": python's
   expression grammar over the tokens ast_to_src emits.

       test:       or_test ['if' or_test 'else' test]
       or_test:    and_test ('or' and_test)*
       and_test:   not_test ('and' not_test)*
       not_test:   'not' not_test | comparison
       comparison: arith (('<'|'==') arith)*
       arith:      term (('+'|'-') term)*
       term:       factor ('*' factor)*
       factor:     ('+'|'-'|'~') factor | atom_expr
       atom_expr:  atom ('.' NAME | '(' [test (',' test)* [',']] ')')*
       atom:       NUMBER | NAME | '(' ... ')' | '[' ... ']' | '{' ... '}'     *)

Keywords == {"if", "else", "and", "or", "not", "in", "is"}

POk(node, pos) == [ok |-> TRUE, node |-> node, nodes |-> <<>>, comma |-> FALSE, pos |-> pos]
POkList(nodes, comma, pos) ==
    [ok |-> TRUE, node |-> NoNode, nodes |-> nodes, comma |-> comma, pos |-> pos]
PFail == [ok |-> FALSE, node |-> NoNode, nodes |-> <<>>, comma |-> FALSE, pos |-> 0]

TokAt(ts, p) == IF p <= Len(ts) THEN ts[p] ELSE Tok("ENDMARKER", "", 0)
IsOp(ts, p, s) == TokAt(ts, p).t = "OP" /\ TokAt(ts, p).s = s
IsKw(ts, p, s) == TokAt(ts, p).t = "NAME" /\ TokAt(ts, p).s = s
AtCloser(ts, p, closer) ==
    IF closer = "ENDMARKER" THEN p > Len(ts) ELSE IsOp(ts, p, closer)

RECURSIVE P_test(_, _)
RECURSIVE P_bool(_, _, _, _)
RECURSIVE P_not(_, _)
RECURSIVE P_cmp_rest(_, _, _, _, _)
RECURSIVE P_arith_rest(_, _, _)
RECURSIVE P_term_rest(_, _, _)
RECURSIVE P_factor(_, _)
RECURSIVE P_trailers(_, _, _)
RECURSIVE P_atom(_, _)
RECURSIVE P_exprlist(_, _, _, _, _)
RECURSIVE P_dictitems(_, _, _, _)

\* the list goes on after its element e
P_exprlist_after(ts, e, closer, acc, comma) ==
    IF ~e.ok THEN PFail
    ELSE IF IsOp(ts, e.pos, ",")
    THEN P_exprlist(ts, e.pos + 1, closer, Append(acc, e.node), TRUE)
    ELSE IF AtCloser(ts, e.pos, closer)
    THEN POkList(Append(acc, e.node), comma, e.pos + 1)
    ELSE PFail

\* test (',' test)* [','] up to the closing token; comma: a comma was seen
P_exprlist(ts, p, closer, acc, comma) ==
    IF AtCloser(ts, p, closer) THEN POkList(acc, comma, p + 1)
    ELSE P_exprlist_after(ts, P_test(ts, p), closer, acc, comma)

P_dictitems_after_value(ts, k, v, keys, values) ==
    IF ~v.ok THEN PFail
    ELSE IF IsOp(ts, v.pos, ",")
    THEN P_dictitems(ts, v.pos + 1, Append(keys, k.node), Append(values, v.node))
    ELSE IF IsOp(ts, v.pos, "}")
    THEN POk(Dict(Append(keys, k.node), Append(values, v.node)), v.pos + 1)
    ELSE PFail

P_dictitems_after_key(ts, k, keys, values) ==
    IF ~k.ok \/ ~IsOp(ts, k.pos, ":") THEN PFail
    ELSE P_dictitems_after_value(ts, k, P_test(ts, k.pos + 1), keys, values)

\* test ':' test (',' test ':' test)* [','] '}'
P_dictitems(ts, p, keys, values) ==
    IF IsOp(ts, p, "}") THEN POk(Dict(keys, values), p + 1)
    ELSE P_dictitems_after_key(ts, P_test(ts, p), keys, values)

\* '(' ... ')': a parenthesized expression, or a tuple
P_parenthesized(l) ==
    IF ~l.ok THEN PFail
    ELSE IF Len(l.nodes) = 1 /\ ~l.comma THEN POk(l.nodes[1], l.pos)
    ELSE POk(Tuple(l.nodes), l.pos)

P_listdisplay(l) == IF ~l.ok THEN PFail ELSE POk(List(l.nodes), l.pos)

\* The tokenizer on a string literal: the characters between the quotes,
\* escape sequences decoded.  A backslash takes the next character with it:
\* a backslashed quote or backslash gives that character, a backslashed
\* newline gives nothing, any other sequence is kept as written.
StrOk(s) == [ok |-> TRUE, s |-> s]
StrFail == [ok |-> FALSE, s |-> <<>>]

ClosesAt(chars, i, q, triple) ==
    /\ chars[i] = q
    /\ triple => /\ i + 2 <= Len(chars)
                 /\ chars[i + 1] = q
                 /\ chars[i + 2] = q

RECURSIVE scan_str(_, _, _, _, _)
scan_str(chars, i, q, triple, acc) ==
    IF i > Len(chars) THEN StrFail
    ELSE IF chars[i] = "\\" THEN
        IF i = Len(chars) THEN StrFail
        ELSE IF chars[i + 1] \in {"'", "\"", "\\"}
        THEN scan_str(chars, i + 2, q, triple, Append(acc, chars[i + 1]))
        ELSE IF chars[i + 1] = "\n"
        THEN scan_str(chars, i + 2, q, triple, acc)
        ELSE scan_str(chars, i + 2, q, triple, acc \o <<"\\", chars[i + 1]>>)
    ELSE IF chars[i] = "\n" /\ ~triple THEN StrFail
    ELSE IF ClosesAt(chars, i, q, triple)
    THEN IF i + (IF triple THEN 2 ELSE 0) = Len(chars) THEN StrOk(acc)
         ELSE StrFail
    ELSE scan_str(chars, i + 1, q, triple, Append(acc, chars[i]))

str_literal(chars) ==
    IF Len(chars) < 2 \/ chars[1] \notin {"'", "\""} THEN StrFail
    ELSE IF Len(chars) >= 3 /\ chars[2] = chars[1] /\ chars[3] = chars[1]
    THEN scan_str(chars, 4, chars[1], TRUE, <<>>)
    ELSE scan_str(chars, 2, chars[1], FALSE, <<>>)

P_string(lit, p) == IF lit.ok THEN POk(Str(lit.s), p + 1) ELSE PFail

P_atom_at(ts, p, t) ==
    CASE t.t = "NUMBER" -> POk(Num(t.n), p + 1)
      [] t.t = "STRING" -> P_string(str_literal(t.chars), p)
      [] t.t = "NAME" ->
            IF t.s \in {"True", "False", "None"} THEN POk(NameConstant(t.s), p + 1)
            ELSE IF t.s \in Keywords THEN PFail
            ELSE POk(Name(t.s), p + 1)
      [] t.t = "OP" /\ t.s = "(" ->
            P_parenthesized(P_exprlist(ts, p + 1, ")", <<>>, FALSE))
      [] t.t = "OP" /\ t.s = "[" ->
            P_listdisplay(P_exprlist(ts, p + 1, "]", <<>>, FALSE))
      [] t.t = "OP" /\ t.s = "{" -> P_dictitems(ts, p + 1, <<>>, <<>>)
      [] OTHER -> PFail

P_atom(ts, p) == P_atom_at(ts, p, TokAt(ts, p))

P_call(ts, l, node) ==
    IF ~l.ok \/ node.kind # "Name" THEN PFail
    ELSE P_trailers(ts, l.pos, Call(node.id, l.nodes))

P_trailers(ts, p, node) ==
    IF IsOp(ts, p, ".") THEN
        IF TokAt(ts, p + 1).t = "NAME" /\ TokAt(ts, p + 1).s \notin Keywords
        THEN P_trailers(ts, p + 2, Attribute(node, TokAt(ts, p + 1).s))
        ELSE PFail
    ELSE IF IsOp(ts, p, "(")
    THEN P_call(ts, P_exprlist(ts, p + 1, ")", <<>>, FALSE), node)
    ELSE POk(node, p)

P_atom_trailers(ts, a) == IF ~a.ok THEN PFail ELSE P_trailers(ts, a.pos, a.node)

P_atom_expr(ts, p) == P_atom_trailers(ts, P_atom(ts, p))

P_unary(op, f) == IF ~f.ok THEN PFail ELSE POk(UnaryOp(op, f.node), f.pos)

P_factor(ts, p) ==
    IF IsOp(ts, p, "-") THEN P_unary("USub", P_factor(ts, p + 1))
    ELSE IF IsOp(ts, p, "+") THEN P_unary("UAdd", P_factor(ts, p + 1))
    ELSE IF IsOp(ts, p, "~") THEN P_unary("Invert", P_factor(ts, p + 1))
    ELSE P_atom_expr(ts, p)

P_term_next(ts, f, left) ==
    IF ~f.ok THEN PFail ELSE P_term_rest(ts, f.pos, BinOp(left, "Mult", f.node))

P_term_rest(ts, p, left) ==
    IF IsOp(ts, p, "*") THEN P_term_next(ts, P_factor(ts, p + 1), left)
    ELSE POk(left, p)

P_term_first(ts, f) == IF ~f.ok THEN PFail ELSE P_term_rest(ts, f.pos, f.node)

P_term(ts, p) == P_term_first(ts, P_factor(ts, p))

P_arith_next(ts, t, left, op) ==
    IF ~t.ok THEN PFail ELSE P_arith_rest(ts, t.pos, BinOp(left, op, t.node))

P_arith_rest(ts, p, left) ==
    IF IsOp(ts, p, "+") THEN P_arith_next(ts, P_term(ts, p + 1), left, "Add")
    ELSE IF IsOp(ts, p, "-") THEN P_arith_next(ts, P_term(ts, p + 1), left, "Sub")
    ELSE POk(left, p)

P_arith_first(ts, t) == IF ~t.ok THEN PFail ELSE P_arith_rest(ts, t.pos, t.node)

P_arith(ts, p) == P_arith_first(ts, P_term(ts, p))

P_cmp_next(ts, a, left, ops, comparators, op) ==
    IF ~a.ok THEN PFail
    ELSE P_cmp_rest(ts, a.pos, left, Append(ops, op), Append(comparators, a.node))

P_cmp_rest(ts, p, left, ops, comparators) ==
    IF IsOp(ts, p, "<")
    THEN P_cmp_next(ts, P_arith(ts, p + 1), left, ops, comparators, "Lt")
    ELSE IF IsOp(ts, p, "==")
    THEN P_cmp_next(ts, P_arith(ts, p + 1), left, ops, comparators, "Eq")
    ELSE IF ops = <<>> THEN POk(left, p)
    ELSE POk(Compare(left, ops, comparators), p)

P_cmp_first(ts, a) ==
    IF ~a.ok THEN PFail ELSE P_cmp_rest(ts, a.pos, a.node, <<>>, <<>>)

P_cmp(ts, p) == P_cmp_first(ts, P_arith(ts, p))

P_negated(n) == IF ~n.ok THEN PFail ELSE POk(UnaryOp("Not", n.node), n.pos)

P_not(ts, p) ==
    IF IsKw(ts, p, "not") THEN P_negated(P_not(ts, p + 1)) ELSE P_cmp(ts, p)

P_bool_after(ts, e, kw, acc) ==
    IF ~e.ok THEN PFail
    ELSE IF IsKw(ts, e.pos, kw) THEN P_bool(ts, e.pos + 1, kw, Append(acc, e.node))
    ELSE IF acc = <<>> THEN e
    ELSE POk(BoolOp(IF kw = "or" THEN "Or" ELSE "And", Append(acc, e.node)), e.pos)

\* operand (kw operand)*, kw one of "or", "and"
P_bool(ts, p, kw, acc) ==
    IF kw = "or" THEN P_bool_after(ts, P_bool(ts, p, "and", <<>>), kw, acc)
    ELSE P_bool_after(ts, P_not(ts, p), kw, acc)

P_test_orelse(a, c, e) ==
    IF ~e.ok THEN PFail ELSE POk(IfExp(c.node, a.node, e.node), e.pos)

P_test_cond(ts, a, c) ==
    IF ~c.ok \/ ~IsKw(ts, c.pos, "else") THEN PFail
    ELSE P_test_orelse(a, c, P_test(ts, c.pos + 1))

P_test_body(ts, a) ==
    IF ~a.ok THEN PFail
    ELSE IF IsKw(ts, a.pos, "if")
    THEN P_test_cond(ts, a, P_bool(ts, a.pos + 1, "or", <<>>))
    ELSE a

P_test(ts, p) == P_test_body(ts, P_bool(ts, p, "or", <<>>))

P_module(l) ==
    IF ~l.ok \/ l.nodes = <<>> THEN PFail
    ELSE IF Len(l.nodes) = 1 /\ ~l.comma THEN POk(l.nodes[1], l.pos)
    ELSE POk(Tuple(l.nodes), l.pos)

\* ast.parse("name = " + text).body[0].value
ast_parse(ts) == P_module(P_exprlist(ts, 1, "ENDMARKER", <<>>, FALSE))

----------------------------------------------------------------------------
(* Section.pretty_print / dump, and parse_stream of the dumped text *)

\* the order in which pretty_print meets the Options (_acp_order, depth first)
DocOrder == <<"x", "Ax", "Ay", "Gz", "Fx">>

NoText == [ok |-> FALSE, err |-> "", line |-> [o \in Options |-> <<>>]]

RECURSIVE pretty_print_from(_, _, _)

pp_fail(e, lines, env) == [ok |-> FALSE, err |-> e, line |-> lines, env |-> env]

\* the line "name = " + self._acp_get_raw_option(child_name)
pp_line(raw, env, i, lines) ==
    IF ~raw.ok THEN pp_fail(SrcError(raw.toks), lines, env)
    ELSE pretty_print_from(env, i + 1, [lines EXCEPT ![DocOrder[i]] = raw.toks])

\* child = getattr(self, child_name) has read the Option
pp_child(child, i, lines) ==
    IF child.st = "err" THEN pp_fail(child.err, lines, child.env)
    ELSE pp_line(acp_get_raw_value(child.env.nodes, DocOrder[i]), child.env, i, lines)

\* The children from the i-th on.  The result is the text (the right-hand
\* side of every option line) and the state the reads leave behind.
pretty_print_from(env, i, lines) ==
    IF i > Len(DocOrder) THEN [ok |-> TRUE, err |-> "", line |-> lines, env |-> env]
    ELSE pp_child(LazyEval_get(env, {}, DocOrder[i]), i, lines)

pretty_print(nodes, slots) ==
    pretty_print_from(Env(nodes, slots), 1, [o \in Options |-> <<>>])

\* parse_stream of a dumped text: every option line is parsed and assigned to
\* a new Option; a line that does not parse ends parse_stream with an error
parse_stream_ok(lines) == \A o \in Options : ast_parse(lines[o]).ok
parse_stream_nodes(lines) == [o \in Options |-> ast_parse(lines[o]).node]

----------------------------------------------------------------------------
(* The read/write machine: a parsed tree, then any reads and writes *)

\* the _acp_ast_node of every Option after parse_stream
InitialNodes == [x |-> Num(1), Ax |-> Num(2), Ay |-> Name("x"),
                 Gz |-> Num(3), Fx |-> Num(4)]

\* expressions a caller assigns to an Option
Menu == { Num(5),
          Name("x"),
          Name("nosuch"),
          Attribute(Name("foo"), "x"),
          Attribute(Name("foo"), "z"),
          List(<<Name("x"), Num(1)>>),
          List(<<Num(1), Name("x")>>),
          BinOp(Num(1), "Add", List(<<>>)) }

\* static values a caller assigns to an Option
StaticValues == { IntV(7) }

\* the Options a caller assigns to
Targets == {"Ax", "Ay"}

\* the last operation and what it returned; slot is what the cache slot of
\* its Option held when the operation began
Result(op, opt, r, slot) ==
    [op |-> op, opt |-> opt, st |-> r.st, val |-> r.val, err |-> r.err, slot |-> slot]
Returned(st, val, err) == [st |-> st, val |-> val, err |-> err]
Nothing == Returned("", NoneV, "")
NoResult == Result("init", "", Nothing, Empty)

AssignedNode(node) == [how |-> "expr", val |-> NoneV, node |-> node]
AssignedValue(value) == [how |-> "static", val |-> value, node |-> NoNode]

\* the line parse_stream read last, or the call of _acp_add_child made last
Line(kind, open, name, close, parent) ==
    [kind |-> kind, open |-> open, name |-> name, close |-> close, parent |-> parent]
NoLine == Line("none", 0, "", 0, 0)

\* no tree is being built
NoTree == [st |-> "none", err |-> "", objs |-> <<>>, current_section |-> 0,
           current_nesting_level |-> 0, ops |-> 0, line |-> NoLine]

Init ==
    /\ tree = NoTree
    /\ ast_node = InitialNodes
    /\ cache = [o \in Options |-> Empty]
    /\ written = [o \in Options |-> AssignedNode(InitialNodes[o])]
    /\ last = NoResult
    /\ evaluated = {}
    /\ pc = "tree"
    /\ text = NoText
    /\ first = NoResult

\* section.option (Section.__getattribute__ -> LazyEval.__get__)
ReadOption(o) ==
    LET r == LazyEval_get(Env(ast_node, cache), {}, o)
    IN  /\ cache' = r.env.cache
        /\ evaluated' = r.env.evald
        /\ last' = Result("read", o, r, cache[o])
        /\ UNCHANGED <<ast_node, written, tree>>

Read(o) == ReadOption(o) /\ UNCHANGED <<pc, text, first>>

\* section.option = node (Section.__setattr__ -> LazyEval.__set__, an ast node)
WriteExpr(o, node) ==
    LET t == LazyEval_set_node(ast_node, cache, o, node)
    IN  /\ ast_node' = t.nodes
        /\ cache' = t.cache
        /\ written' = [written EXCEPT ![o] = AssignedNode(node)]
        /\ evaluated' = {}
        /\ last' = Result("write_expr", o, Nothing, cache[o])
        /\ UNCHANGED <<pc, text, first, tree>>

\* section.option = value (Section.__setattr__ -> LazyEval.__set__, a value)
WriteStatic(o, value) ==
    LET t == LazyEval_set_static(ast_node, cache, o, value)
    IN  /\ ast_node' = t.nodes
        /\ cache' = t.cache
        /\ written' = [written EXCEPT ![o] = AssignedValue(value)]
        /\ evaluated' = {}
        /\ last' = Result("write_static", o, Returned("", value, ""), cache[o])
        /\ UNCHANGED <<pc, text, first, tree>>

Next ==
    \/ \E o \in Options : Read(o)
    \/ \E o \in Targets, node \in Menu : WriteExpr(o, node)
    \/ \E o \in Targets, value \in StaticValues : WriteStatic(o, value)

Spec == Init /\ [][Next]_vars

----------------------------------------------------------------------------
(* The round trip of one option: the tree above with option y of section A
   defined by an expression drawn from TestExprs is read, dumped, parsed
   again and read again. *)

MaxNum == 1     \* number literals are 0..MaxNum
MaxElts == 2    \* elements of a list, tuple or call, pairs of a dict

Leaves ==
    {Num(n) : n \in 0..MaxNum}
        \cup {Name("x"), Name("nosuch"), Attribute(Name("foo"), "x")}

\* one sample of every kind of expression, to nest in another
Inner ==
    { Num(0), Num(1), Name("x"), Name("nosuch"),
      UnaryOp("USub", Num(1)),
      BinOp(Num(1), "Add", Num(1)),
      BoolOp("Or", <<Num(0), Name("x")>>),
      Compare(Num(0), <<"Lt">>, <<Num(1)>>),
      IfExp(Num(1), Num(1), Num(0)),
      List(<<Name("x")>>),
      Call("evil", <<Num(1)>>) }

SeqsUpTo(S, n) == UNION {[1..k -> S] : k \in 0..n}

\* every expression made of one node over operands from S
Build(S) ==
    {UnaryOp(op, a) : op \in {"USub", "UAdd", "Invert", "Not"}, a \in S}
        \cup {BinOp(a, op, b) : a \in S, op \in BinOps, b \in S}
        \cup {BoolOp(op, <<a, b>>) : op \in {"And", "Or"}, a \in S, b \in S}
        \cup {Compare(a, <<op>>, <<b>>) : a \in S, op \in CmpOps, b \in S}
        \cup {IfExp(a, b, c) : a \in S, b \in S, c \in S}
        \cup {List(elts) : elts \in SeqsUpTo(S, MaxElts)}
        \cup {Tuple(elts) : elts \in SeqsUpTo(S, MaxElts)}
        \cup {Dict(<<>>, <<>>)}
        \cup {Dict(<<k>>, <<v>>) : k \in S, v \in S}
        \cup {Call(f, args) : f \in {"len", "bool", "evil"},
                              args \in SeqsUpTo(S, MaxElts)}

\* string constants, as whole option values
MaxStr == 2
Chars == {"z", "'", "\"", "\n", "\\"}
Strings == UNION {[1..k -> Chars] : k \in 0..MaxStr}

TestExprs ==
    Leaves \cup Build(Leaves) \cup Build(Inner) \cup {Str(s) : s \in Strings}

UnderTest == "Ay"

InitExpr ==
    /\ tree = NoTree
    /\ \E node \in TestExprs :
          /\ ast_node = [InitialNodes EXCEPT ![UnderTest] = node]
          /\ written = [o \in Options |->
                          AssignedNode(IF o = UnderTest THEN node ELSE InitialNodes[o])]
    /\ cache = [o \in Options |-> Empty]
    /\ last = NoResult
    /\ evaluated = {}
    /\ pc = "parsed"
    /\ text = NoText
    /\ first = NoResult

\* config.A.y
RtRead ==
    /\ pc = "parsed"
    /\ ReadOption(UnderTest)
    /\ first' = last'
    /\ pc' = "read"
    /\ UNCHANGED text

\* config.dump()
Dumped(d) ==
    /\ text' = [ok |-> d.ok, err |-> d.err, line |-> d.line]
    /\ cache' = d.env.cache
    /\ evaluated' = d.env.evald
    /\ pc' = IF d.ok THEN "dumped" ELSE "dump_failed"

RtDump ==
    /\ pc = "read"
    /\ Dumped(pretty_print(ast_node, cache))
    /\ last' = Result("dump", "", Nothing, Empty)
    /\ UNCHANGED <<ast_node, written, first, tree>>

\* config2 = parse_string(config.dump())
RtParse ==
    /\ pc = "dumped"
    /\ IF parse_stream_ok(text.line)
       THEN /\ ast_node' = parse_stream_nodes(text.line)
            /\ written' = [o \in Options |-> AssignedNode(ast_node'[o])]
            /\ cache' = [o \in Options |-> Empty]
            /\ pc' = "reparsed"
       ELSE /\ pc' = "parse_failed"
            /\ UNCHANGED <<ast_node, written, cache>>
    /\ evaluated' = {}
    /\ last' = Result("parse", "", Nothing, Empty)
    /\ UNCHANGED <<text, first, tree>>

\* config2.A.y
RtReread ==
    /\ pc = "reparsed"
    /\ ReadOption(UnderTest)
    /\ pc' = "done"
    /\ UNCHANGED <<text, first>>

NextExpr == RtRead \/ RtDump \/ RtParse \/ RtReread

SpecExpr == InitExpr /\ [][NextExpr]_vars

----------------------------------------------------------------------------
(* The tree under construction: parse_stream reads section headers, option
   lines and empty lines, then the caller adds children with _acp_add_child.
   An object is known by its place in tree.objs, the order of creation; the
   root is object 1 and 0 stands for None. *)

MaxOps == 4        \* lines read and children added, together
MaxBrackets == 2   \* brackets on either side of a header

\* names that match [^\d\W]\w*, the last one a key every Section has
ChildNames == {"a", "b", "_acp_order"}
\* a header text the pattern does not match
Malformed == "1"

\* the keys of self.__dict__ that Section.__init__ sets
InternalKeys == {"_acp_name", "_acp_parent", "_acp_order", "_acp_nesting_level"}

\* Section() and Option() as __init__ leaves them, then named; dict holds
\* the entries of __dict__ that are children, each a <<name, object>> pair
Object(kind, name) ==
    [kind |-> kind, acp_name |-> name, acp_parent |-> 0,
     acp_nesting_level |-> 0, acp_order |-> <<>>, dict |-> {}]

Keys(obj) == InternalKeys \cup {e[1] : e \in obj.dict}

\* the items of self.__dict__ whose value is a Section: the child sections
\* and, when it is set, _acp_parent
acp_section_names(objs, self) ==
    {e[1] : e \in {c \in objs[self].dict : objs[c[2]].kind = "Section"}}
        \cup (IF objs[self].acp_parent # 0 THEN {"_acp_parent"} ELSE {})

acp_option_names(objs, self) ==
    {e[1] : e \in {c \in objs[self].dict : objs[c[2]].kind = "Option"}}

\* self.__dict__[name] = child; self.__dict__["_acp_order"].append(name)
DictSet(obj, name, child) ==
    [obj EXCEPT !.dict = {e \in @ : e[1] # name} \cup {<<name, child>>},
                !.acp_order = Append(@, name)]

\* the level and the parent of the child, set before the name is looked up
Adopted(objs, self, child) ==
    [objs EXCEPT ![child].acp_nesting_level = objs[self].acp_nesting_level + 1,
                 ![child].acp_parent = IF @ = 0 THEN self ELSE @]

\* an _acp_add_child that does not look the name up
acp_add_child_unchecked(objs, self, child) ==
    [ok |-> TRUE,
     objs |-> [Adopted(objs, self, child) EXCEPT
                 ![self] = DictSet(@, objs[child].acp_name, child)]]

\* Section._acp_add_child(child): ok, or SyntaxError("duplicate object")
acp_add_child(objs, self, child) ==
    IF objs[child].acp_name \in Keys(objs[self])
    THEN [ok |-> FALSE, objs |-> Adopted(objs, self, child)]
    ELSE [ok |-> TRUE,
          objs |-> [Adopted(objs, self, child) EXCEPT
                      ![self] = DictSet(@, objs[child].acp_name, child)]]

\* a header branch that stays in the current section
Ascend_never(t, level) == t

\* while current_nesting_level >= level: go to the parent
RECURSIVE Ascend(_, _)
Ascend(t, level) ==
    IF t.current_nesting_level >= level
    THEN Ascend([t EXCEPT !.current_section = t.objs[@].acp_parent,
                          !.current_nesting_level = @ - 1], level)
    ELSE t

Raised(t, e) == [t EXCEPT !.st = "failed", !.err = e]

\* the new child is in t.objs, the last object; add it to the current section
add_new_child(t, r, enter) ==
    IF ~r.ok THEN Raised([t EXCEPT !.objs = r.objs], "SyntaxError")
    ELSE IF enter
    THEN [t EXCEPT !.objs = r.objs,
                   !.current_section = Len(r.objs),
                   !.current_nesting_level = @ + 1]
    ELSE [t EXCEPT !.objs = r.objs]

new_child(t, kind, name, enter) ==
    add_new_child(t, acp_add_child(Append(t.objs, Object(kind, name)),
                                   t.current_section, Len(t.objs) + 1), enter)

\* the header branch, from the section the loop has gone up to
new_section(t, name) ==
    IF name \in acp_section_names(t.objs, t.current_section)
    THEN Raised(t, "SyntaxError")
    ELSE new_child(t, "Section", name, TRUE)

\* a line that starts with "[": open brackets, a name, close brackets
parse_header(t, open, name, close) ==
    IF name = Malformed THEN Raised(t, "SyntaxError")
    ELSE IF open # close THEN Raised(t, "SyntaxError")
    ELSE IF open > t.current_nesting_level + 1 THEN Raised(t, "SyntaxError")
    ELSE new_section(Ascend(t, open), name)

\* a line "name = expression"
parse_option(t, name) ==
    IF name \in acp_option_names(t.objs, t.current_section)
    THEN Raised(t, "SyntaxError")
    ELSE new_child(t, "Option", name, FALSE)

\* Section._acp_add_empty_line
acp_add_empty_line(t) ==
    [t EXCEPT !.objs[t.current_section].acp_order = Append(@, "\n")]

Counted(t, line) == [t EXCEPT !.ops = @ + 1, !.line = line]

InitTree ==
    /\ tree = [NoTree EXCEPT !.st = "parsing",
                             !.objs = <<Object("Section", "<global>")>>,
                             !.current_section = 1]
    /\ ast_node = InitialNodes
    /\ cache = [o \in Options |-> Empty]
    /\ written = [o \in Options |-> AssignedNode(InitialNodes[o])]
    /\ last = NoResult
    /\ evaluated = {}
    /\ pc = "tree"
    /\ text = NoText
    /\ first = NoResult

Reading == tree.st = "parsing" /\ tree.ops < MaxOps
Untouched == UNCHANGED <<ast_node, cache, written, last, evaluated, pc, text, first>>

ParseHeader(open, name, close) ==
    /\ Reading
    /\ tree' = Counted(parse_header(tree, open, name, close),
                       Line("header", open, name, close, 0))
    /\ Untouched

ParseOptionLine(name) ==
    /\ Reading
    /\ tree' = Counted(parse_option(tree, name), Line("option", 0, name, 0, 0))
    /\ Untouched

ParseEmptyLine ==
    /\ Reading
    /\ tree' = Counted(acp_add_empty_line(tree), Line("empty", 0, "", 0, 0))
    /\ Untouched

\* readline() returns "": parse_stream returns the root
ParseEnd ==
    /\ tree.st = "parsing"
    /\ tree' = [tree EXCEPT !.st = "parsed", !.line = NoLine]
    /\ Untouched

\* the result of a call of _acp_add_child by the caller, who goes on after
\* a SyntaxError
Added(t, r, line) ==
    Counted([t EXCEPT !.objs = r.objs, !.err = IF r.ok THEN "" ELSE "SyntaxError"],
            line)

\* parent._acp_add_child(child), child a new Section or Option of that name
AddChild(parent, kind, name) ==
    /\ tree.st = "parsed" /\ tree.ops < MaxOps
    /\ parent \in 1..Len(tree.objs) /\ tree.objs[parent].kind = "Section"
    /\ tree' = Added(tree,
                     acp_add_child(Append(tree.objs, Object(kind, name)),
                                   parent, Len(tree.objs) + 1),
                     Line("add", 0, name, 0, parent))
    /\ Untouched

NextTree ==
    \/ \E open \in 1..MaxBrackets, close \in 1..MaxBrackets,
          name \in ChildNames \cup {Malformed} : ParseHeader(open, name, close)
    \/ \E name \in ChildNames : ParseOptionLine(name)
    \/ ParseEmptyLine
    \/ ParseEnd
    \/ \E parent \in 1..(MaxOps + 1), kind \in {"Section", "Option"},
          name \in ChildNames : AddChild(parent, kind, name)

SpecTree == InitTree /\ [][NextTree]_vars

----------------------------------------------------------------------------
(* Properties of reads and writes, checked under Spec *)

\* the node holds a reference (a Name or Attribute node) anywhere in it
RECURSIVE HasRef(_)
HasRef(node) ==
    \/ node.kind \in {"Name", "Attribute"}
    \/ \E i \in 1..Len(node.args) : HasRef(node.args[i])

\* the Option is defined by an expression
DefinedBy(o) == written[o].node
IsExpr(o) == written[o].how = "expr"

\* the tree as it is defined now, with nothing an earlier evaluation computed:
\* the slots of the static values, every other slot Empty
CurrentSlots == [o \in Options |-> IF IsExpr(o) THEN Empty ELSE cache[o]]

SameReturn(a, b) == a.st = b.st /\ a.val = b.val /\ a.err = b.err

\* C1: a read of an Option whose expression holds a reference anywhere in it
\* returns what evaluating the expression against the current tree gives,
\* never a value computed before a referenced Option was reassigned.
C1_ReadsReflectCurrentValues ==
    (last.op = "read" /\ IsExpr(last.opt) /\ HasRef(DefinedBy(last.opt)))
        => SameReturn(last, LazyEval_get(Env(ast_node, CurrentSlots), {}, last.opt))

RefFree(o) == IsExpr(o) /\ ~HasRef(DefinedBy(o))

\* a successful read of a reference-free Option leaves its value in the slot
C2_Kept ==
    (last.op = "read" /\ last.st = "ok" /\ RefFree(last.opt))
        => cache[last.opt] = Cached(last.val)

\* a step that is no write to o, taken when o is reference-free and its slot
\* is filled: the slot stays, o is not evaluated, a read of o returns the slot
C2_Step(o) ==
    (/\ RefFree(o)
     /\ cache[o].full
     /\ ~(last'.op \in {"write_expr", "write_static"} /\ last'.opt = o))
        => /\ cache'[o] = cache[o]
           /\ o \notin evaluated'
           /\ (last'.op = "read" /\ last'.opt = o)
                => (last'.st = "ok" /\ last'.val = cache[o].val)

\* C2: an Option whose expression holds no reference is evaluated at most
\* once per assignment: after its first successful read, every later read
\* with no write to it in between returns the cached value and does not
\* evaluate the expression again.
C2_RefFreeEvaluatedOnce ==
    [][C2_Kept' /\ \A o \in Options : C2_Step(o)]_vars

\* a reference-free Option is read again, from its filled slot
C2_Witness ==
    /\ last.op = "read" /\ last.opt = "Ay" /\ last.st = "ok"
    /\ RefFree("Ay")
    /\ last.slot.full
    /\ "Ay" \notin evaluated

\* evaluating the definition of o now, its own slot aside
EvalNow(o) ==
    Unpack(acp_eval([Env(ast_node, [cache EXCEPT ![o] = Empty]) EXCEPT !.evald = {o}],
                    {o}, acp_parent[o], ast_node[o]))

\* C3: a write of a static value puts the value into the slot and evaluates
\* nothing, and every read returns that value until the next write; a write
\* of an expression replaces the definition and empties the slot whatever it
\* held, so the next read evaluates the new expression.
C3_WriteSemantics ==
    /\ \A o \in Options : ~IsExpr(o) => cache[o] = Cached(written[o].val)
    /\ last.op = "write_static"
        => (cache[last.opt] = Cached(last.val) /\ evaluated = {})
    /\ (last.op = "read" /\ ~IsExpr(last.opt))
        => (/\ last.st = "ok"
            /\ last.val = written[last.opt].val
            /\ last.opt \notin evaluated)
    /\ last.op = "write_expr"
        => (/\ cache[last.opt] = Empty
            /\ ast_node[last.opt] = DefinedBy(last.opt))
    /\ (last.op = "read" /\ IsExpr(last.opt) /\ ~last.slot.full)
        => (/\ last.opt \in evaluated
            /\ ast_node[last.opt] = DefinedBy(last.opt)
            /\ SameReturn(last, EvalNow(last.opt)))

\* an expression is written over a static value, and the slot is Empty
C3_Witness ==
    /\ last.op = "write_expr"
    /\ last.slot = Cached(IntV(7))
    /\ cache[last.opt] = Empty

\* the scopes a reference in section sec is looked up in, nearest first
RECURSIVE ScopeChain(_)
ScopeChain(sec) ==
    IF sec = "None" THEN <<>> ELSE <<sec>> \o ScopeChain(acp_parent[sec])

\* the last operation read an Option defined by a reference
ReadOfReference ==
    /\ last.op = "read" /\ IsExpr(last.opt)
    /\ DefinedBy(last.opt).kind \in {"Name", "Attribute"}

\* the complete reference of the Option that was read, looked up from scope sec
Whole(sec) ==
    traverse(Env(ast_node, cache), {last.opt}, SectionV(sec),
             RefAttrs(DefinedBy(last.opt)), 1)

NotFound(r) == r.st = "err" /\ r.err \in {"AttributeError", "KeyError"}

\* the first index at which a sequence of booleans holds TRUE
FirstTrue(flags) ==
    CHOOSE i \in 1..Len(flags) : flags[i] /\ \A j \in 1..(i - 1) : ~flags[j]

\* C4 as amended: a reference resolves to what the nearest scope yields in
\* which the complete path resolves, that is, in which no step of it,
\* reading the Options on the path included, raises AttributeError or
\* KeyError; a nearer scope that has only the first segment does not shadow
\* it; if no scope resolves the complete path the read fails with
\* AttributeError.
C4_NearestScopeResolvingWholePath ==
    ReadOfReference =>
        LET chain == ScopeChain(acp_parent[last.opt])
            resolves == [i \in 1..Len(chain) |-> ~NotFound(Whole(chain[i]))]
        IN  IF \E i \in 1..Len(chain) : resolves[i]
            THEN SameReturn(last, Whole(chain[FirstTrue(resolves)]))
            ELSE last.st = "err" /\ last.err = "AttributeError"

\* foo.x read in section A: A has a child foo, which has no x; the root's has
C4_Witness ==
    /\ last.op = "read" /\ last.opt = "Ay" /\ IsExpr("Ay")
    /\ DefinedBy("Ay") = Attribute(Name("foo"), "x")
    /\ last.st = "ok" /\ last.val = IntV(4)

\* every Option but the one that was read evaluates
OthersEvaluate ==
    \A o \in Options \ {last.opt} :
        LazyEval_get(Env(ast_node, cache), {}, o).st = "ok"

\* C4 as stated: the first segment is bound in the nearest scope that has a
\* child of that name and the rest of the path is resolved from that child.
C4_FirstSegmentScopeWins ==
    (ReadOfReference /\ OthersEvaluate) =>
        LET chain == ScopeChain(acp_parent[last.opt])
            binds == [i \in 1..Len(chain) |->
                        HasChild(chain[i], RefAttrs(DefinedBy(last.opt))[1])]
        IN  IF \E i \in 1..Len(chain) : binds[i]
            THEN SameReturn(last, Whole(chain[FirstTrue(binds)]))
            ELSE last.st = "err"

\* C5: when the Option that a read reference names fails to evaluate, the
\* read fails with that error.
C5_NestedFailurePropagates ==
    (last.op = "read" /\ IsExpr(last.opt) /\ DefinedBy(last.opt).kind = "Name") =>
        LET chain == ScopeChain(acp_parent[last.opt])
            binds == [i \in 1..Len(chain) |-> HasChild(chain[i], DefinedBy(last.opt).id)]
        IN  (\E i \in 1..Len(chain) : binds[i]) =>
                LET r == ChildOf(chain[FirstTrue(binds)], DefinedBy(last.opt).id)
                    got == IF r \in Options
                           THEN LazyEval_get(Env(ast_node, cache), {}, r)
                           ELSE Ok(SectionV(r), TRUE, Env(ast_node, cache))
                IN  got.st = "err" => (last.st = "err" /\ last.err = got.err)

----------------------------------------------------------------------------
(* Properties of the evaluator and of the round trip, checked under SpecExpr *)

\* the expression under test, and the state its evaluation starts in
TestNode == DefinedBy(UnderTest)
TestEnv ==
    [Env(InitialNodes, [o \in Options |-> Empty]) EXCEPT !.evald = {UnderTest}]

\* evaluating a sub-expression of the expression under test, from state env
SubEval(env, node) ==
    Unpack(acp_eval(env, {UnderTest}, acp_parent[UnderTest], node))

\* the read of the Option under test returned r, evaluated what r evaluated
\* and filled the slots r filled, its own if its flag says so
ReadGave(r, has_refs) ==
    /\ SameReturn(first, r)
    /\ evaluated = r.env.evald
    /\ cache = IF r.st = "ok" /\ ~has_refs
               THEN [r.env.cache EXCEPT ![UnderTest] = Cached(r.val)]
               ELSE r.env.cache

\* C6: a conditional evaluates its condition and then only the selected
\* branch; the other branch is not evaluated, so nothing it refers to is
\* resolved or raises, and the flag is the OR of the flags of the condition
\* and of the selected branch.
C6_ConditionalSelectedBranchOnly ==
    (pc = "read" /\ TestNode.kind = "IfExp") =>
        LET t == SubEval(TestEnv, TestNode.args[1])
            sel == SubEval(t.env, IF Truthy(t.val) THEN TestNode.args[2]
                                                   ELSE TestNode.args[3])
        IN  IF t.st = "err" THEN ReadGave(t, FALSE)
            ELSE ReadGave(sel, t.refs \/ sel.refs)

\* the branch not taken holds an unresolvable reference, and the read succeeds
C6_Witness ==
    /\ pc = "read"
    /\ TestNode = IfExp(Num(1), Num(1), Name("nosuch"))
    /\ first.st = "ok" /\ first.val = IntV(1)
    /\ cache[UnderTest] = Cached(IntV(1))

\* C7: a boolean operation returns operand values: "or" the value of the
\* first truthy operand, or of the last operand if none is truthy; "and"
\* false at the first falsy operand, or the value of the last operand if all
\* are truthy; operands after the deciding one are not evaluated.
C7_BoolOpReturnsOperandValues ==
    (pc = "read" /\ TestNode.kind = "BoolOp" /\ Len(TestNode.args) = 2) =>
        LET a == SubEval(TestEnv, TestNode.args[1])
            b == SubEval(a.env, TestNode.args[2])
            Falls(v) == IF TestNode.id = "Or" \/ Truthy(v) THEN v ELSE BoolV(FALSE)
        IN  IF a.st = "err" THEN first.st = "err" /\ first.err = a.err
            ELSE IF Truthy(a.val) = (TestNode.id = "Or")
            THEN /\ first.st = "ok" /\ PyEq(first.val, Falls(a.val))
                 /\ evaluated = a.env.evald
            ELSE IF b.st = "err" THEN first.st = "err" /\ first.err = b.err
            ELSE first.st = "ok" /\ PyEq(first.val, Falls(b.val))

\* the node is a call of a function outside the whitelist, or an expression
\* that evaluates all of its operands and has such a call among them
RECURSIVE EvaluatesUnlistedCall(_)
EvaluatesUnlistedCall(node) ==
    \/ node.kind = "Call" /\ node.id \notin Whitelist
    \/ /\ node.kind \in {"Call", "List", "Tuple", "Dict", "BinOp"}
       /\ \E i \in 1..Len(node.args) : EvaluatesUnlistedCall(node.args[i])

\* C8: the evaluation of a call of a function outside the whitelist fails
\* wherever the call stands (top level, operand, call argument, element of a
\* list, tuple or dict); it never yields a value.
C8_UnlistedCallAlwaysFails ==
    (pc = "read" /\ EvaluatesUnlistedCall(TestNode)) => first.st = "err"

\* C9: the text dump() writes for an Option that evaluated to a value v
\* parses, and the parsed expression evaluates in the same tree to a value
\* equal to v.
C9_RoundTripValueEquality ==
    first.st = "ok" =>
        /\ pc \notin {"dump_failed", "parse_failed"}
        /\ pc = "done" => (last.st = "ok" /\ PyEq(last.val, first.val))

\* the sub-expressions of a node, itself included
RECURSIVE Subexprs(_)
Subexprs(node) ==
    {node} \cup UNION {Subexprs(node.args[i]) : i \in 1..Len(node.args)}

\* "(" less ")" among the first k tokens
RECURSIVE ParenDepth(_, _)
ParenDepth(toks, k) ==
    IF k = 0 THEN 0
    ELSE ParenDepth(toks, k - 1)
            + (IF toks[k] = OpTok("(") THEN 1 ELSE IF toks[k] = OpTok(")") THEN -1 ELSE 0)

\* the text is one parenthesis around all of it
Wrapped(toks) ==
    /\ Len(toks) >= 2
    /\ toks[1] = OpTok("(") /\ toks[Len(toks)] = OpTok(")")
    /\ \A k \in 1..(Len(toks) - 1) : ParenDepth(toks, k) > 0

\* C10: the text of every binary, boolean, compare and conditional
\* (sub)expression is wrapped in its own pair of parentheses, at every depth.
C10_RenderParenthesizes ==
    pc = "dumped" =>
        /\ text.line[UnderTest] = ast_to_src(TestNode)
        /\ \A e \in Subexprs(TestNode) :
              e.kind \in {"BinOp", "BoolOp", "Compare", "IfExp"}
                  => Wrapped(ast_to_src(e))

\* the delimiter the claim gives a string: the double quote when the string
\* holds an unescaped single quote, else the single quote; tripled when the
\* string holds a newline
Delimiter(s) ==
    LET quote == IF Unescaped(s, "'") THEN "\"" ELSE "'"
    IN  IF \E i \in 1..Len(s) : s[i] = "\n" THEN <<quote, quote, quote>>
        ELSE <<quote>>

\* C11: a string with an unescaped single and an unescaped double quote does
\* not render; any other string renders between the delimiters the claim
\* gives, the text parses, and the parsed option reads as the same string.
C11_StringQuoting ==
    (first.val.t = "str" /\ pc \notin {"parsed", "read"}) =>
        LET s == first.val.chars
        IN  IF Unescaped(s, "'") /\ Unescaped(s, "\"") THEN pc = "dump_failed"
            ELSE /\ pc # "dump_failed"
                 /\ text.line[UnderTest] =
                        <<StrTok(Delimiter(s) \o s \o Delimiter(s))>>
                 /\ pc # "parse_failed"
                 /\ pc = "done" => (last.st = "ok" /\ last.val = StrV(s))

\* the operator of a UnaryOp node applied to a value, as Python applies it
ApplyUnaryOp(op, v) ==
    CASE op = "Not" -> OpOk(BoolV(~Truthy(v)))
      [] ~IsNumber(v) -> OpErr("TypeError")
      [] op = "USub" -> OpOk(IntV(0 - v.n))
      [] op = "UAdd" -> OpOk(IntV(v.n))
      [] op = "Invert" -> OpOk(IntV(0 - v.n - 1))

\* C13: a unary operation evaluates its operand, whether a literal, a
\* Reference or a compound expression, and returns the operator applied to
\* the operand's value, with the flag of the operand.
C13_UnaryOpAppliesOperator ==
    (pc = "read" /\ TestNode.kind = "UnaryOp") =>
        LET a == SubEval(TestEnv, TestNode.args[1])
            r == ApplyUnaryOp(TestNode.id, a.val)
        IN  IF a.st = "err" THEN ReadGave(a, FALSE)
            ELSE IF ~r.ok THEN first.st = "err" /\ first.err = r.err
            ELSE /\ first.st = "ok" /\ PyEq(first.val, r.val)
                 /\ evaluated = a.env.evald
                 /\ cache[UnderTest].full = ~a.refs

\* C15: a dict display evaluates its key and its value and yields the dict
\* that pairs the evaluated key with the evaluated value, also when they are
\* References or other non-literal expressions; a key that evaluates to an
\* unhashable value makes the evaluation fail with a TypeError.
C15_DictLitPairsKeysWithValues ==
    (pc = "read" /\ TestNode.kind = "Dict" /\ TestNode.n = 1) =>
        LET k == SubEval(TestEnv, DictKeys(TestNode)[1])
            v == SubEval(k.env, DictValues(TestNode)[1])
        IN  IF k.st = "err" \/ v.st = "err" THEN first.st = "err"
            ELSE IF ~Hashable(k.val)
            THEN first.st = "err" /\ first.err = "TypeError"
            ELSE /\ first.st = "ok"
                 /\ PyEq(first.val, DictV(<<TupleV(<<k.val, v.val>>)>>))

----------------------------------------------------------------------------
(* Properties of the rendered text across writes, checked under Spec *)

\* the line of o in the text dump() writes, when dump() succeeds
DumpLine(nodes, slots, o) == pretty_print(nodes, slots).line[o]
Dumps(nodes, slots) == pretty_print(nodes, slots).ok

\* a step that writes a static value to o: the node of o, its rendered text
\* and its line in the dump stay what they were before the write
C16_StaticWriteStep(o) ==
    (last'.op = "write_static" /\ last'.opt = o /\ last' # last) =>
        /\ ast_node'[o] = ast_node[o]
        /\ acp_get_raw_value(ast_node', o) = acp_get_raw_value(ast_node, o)
        /\ Dumps(ast_node', cache') =>
              /\ DumpLine(ast_node', cache', o) = acp_get_raw_value(ast_node, o).toks
              /\ Dumps(ast_node, cache) =>
                    DumpLine(ast_node', cache', o) = DumpLine(ast_node, cache, o)

\* a step that changes the rendered text of o is an expression write to o
C16_RenderChangeStep(o) ==
    acp_get_raw_value(ast_node', o) # acp_get_raw_value(ast_node, o)
        => (last'.op = "write_expr" /\ last'.opt = o)

----------------------------------------------------------------------------
(* Properties of the tree, checked under SpecTree *)

\* the names of the children of a section
ChildrenNames(obj) == {e[1] : e \in obj.dict}

\* the entries of _acp_order that are names of children (not empty lines)
OrderNames(obj) == SelectSeq(obj.acp_order, LAMBDA n : n # "\n")

\* the step read a line or made a call of _acp_add_child
Acted == tree'.ops = tree.ops + 1

\* the header has as many closing as opening brackets and a name
WellFormed(line) == line.open = line.close /\ line.name # Malformed

\* the nesting level of the section opened last (the root before any header)
Depth(objs) ==
    LET secs == {i \in 1..Len(objs) : objs[i].kind = "Section"}
    IN  objs[CHOOSE i \in secs : \A j \in secs : j <= i].acp_nesting_level

\* the section of nesting level d opened last
LastOpened(objs, d) ==
    LET secs == {i \in 1..Len(objs) : /\ objs[i].kind = "Section"
                                       /\ objs[i].acp_nesting_level = d}
    IN  CHOOSE i \in secs : \A j \in secs : j <= i

\* the section a step adds its child to
Target(t, line) ==
    CASE line.kind = "add" -> line.parent
      [] line.kind = "option" -> LastOpened(t.objs, Depth(t.objs))
      [] line.kind = "header" -> LastOpened(t.objs, line.open - 1)

\* the step tries to add a child to a section
Adds(t, line) ==
    \/ line.kind \in {"add", "option"}
    \/ line.kind = "header" /\ WellFormed(line) /\ line.open <= Depth(t.objs) + 1

\* a step that adds a name the section already has among its children fails
\* and leaves every object there was, the section included, as it was
C12_DuplicateStep ==
    (/\ Acted /\ Adds(tree, tree'.line)
     /\ tree'.line.name \in ChildrenNames(tree.objs[Target(tree, tree'.line)]))
        => /\ tree'.err = "SyntaxError"
           /\ \A i \in 1..Len(tree.objs) : tree'.objs[i] = tree.objs[i]

\* within every section a name stands for one child and is listed once
C12_UniqueNames ==
    \A i \in 1..Len(tree.objs) :
        LET names == OrderNames(tree.objs[i])
        IN  /\ \A j, k \in 1..Len(names) : names[j] = names[k] => j = k
            /\ {names[j] : j \in 1..Len(names)} = ChildrenNames(tree.objs[i])
            /\ \A e, f \in tree.objs[i].dict : e[1] = f[1] => e = f

\* C12: adding a section or an option whose name exists among the children
\* of the parent, whatever kind the existing child is, fails with a
\* duplicate error and leaves the children of the parent and their order
\* unchanged; after any additions, successful or failed, the names of the
\* children are unique within every section.
C12_DuplicateNameRejected ==
    [][C12_DuplicateStep /\ C12_UniqueNames']_vars

\* a section was added under the name of an option of the root, it failed,
\* and the root still has the option
C12_Witness ==
    /\ tree.line.kind = "add" /\ tree.line.parent = 1 /\ tree.line.name = "a"
    /\ tree.err = "SyntaxError"
    /\ tree.objs[Len(tree.objs)].kind = "Section"
    /\ \E e \in tree.objs[1].dict : e[1] = "a" /\ tree.objs[e[2]].kind = "Option"

\* a header step of parse_stream: rejected when the bracket counts differ or
\* exceed the depth plus one; an accepted header opens a section of level n
\* as the last child of the section of level n - 1 opened last
C14_HeaderStep ==
    (Acted /\ tree'.line.kind = "header") =>
        LET line == tree'.line
            new == Len(tree'.objs)
        IN  IF line.open # line.close \/ line.open > Depth(tree.objs) + 1
            THEN tree'.st = "failed" /\ tree'.err = "SyntaxError"
            ELSE tree'.st = "parsing" =>
                   /\ new = Len(tree.objs) + 1
                   /\ tree'.objs[new].kind = "Section"
                   /\ tree'.objs[new].acp_name = line.name
                   /\ tree'.objs[new].acp_nesting_level = line.open
                   /\ tree'.objs[new].acp_parent = LastOpened(tree.objs, line.open - 1)
                   /\ <<line.name, new>> \in tree'.objs[Target(tree, line)].dict

\* an accepted option line adds an Option to the section opened last
C14_OptionStep ==
    (Acted /\ tree'.line.kind = "option" /\ tree'.st = "parsing") =>
        LET new == Len(tree'.objs)
        IN  /\ new = Len(tree.objs) + 1
            /\ tree'.objs[new].kind = "Option"
            /\ tree'.objs[new].acp_parent = Target(tree, tree'.line)
            /\ <<tree'.line.name, new>> \in tree'.objs[Target(tree, tree'.line)].dict

\* the root has level 0; any other object has the level of its parent plus
\* one, and every child listed in a section has that section as its parent
C14_Levels ==
    \A i \in 1..Len(tree.objs) :
        /\ IF i = 1
           THEN tree.objs[i].acp_parent = 0 /\ tree.objs[i].acp_nesting_level = 0
           ELSE /\ tree.objs[i].acp_parent \in 1..(i - 1)
                /\ tree.objs[i].acp_nesting_level =
                      tree.objs[tree.objs[i].acp_parent].acp_nesting_level + 1
        /\ \A e \in tree.objs[i].dict : tree.objs[e[2]].acp_parent = i

\* C14: parse_stream accepts a header of n opening and n closing brackets
\* only if n is at most the nesting depth plus one, and fails with a
\* SyntaxError otherwise, as for differing bracket counts; the new section
\* becomes a child of the section of depth n - 1 opened last (the root for
\* n = 1), and the option lines up to the next header are added to it; so
\* every section has the nesting level of its parent plus one, the root 0.
C14_HeaderNesting ==
    [][C14_HeaderStep /\ C14_OptionStep /\ C14_Levels']_vars

\* a header of two brackets after two sections of level 1: the new section
\* is a child of the second one
C14_Witness ==
    /\ tree.st = "parsing" /\ tree.line.kind = "header" /\ tree.line.open = 2
    /\ Len(tree.objs) = 4
    /\ tree.objs[2].acp_nesting_level = 1
    /\ tree.objs[3].acp_nesting_level = 1
    /\ tree.objs[4].acp_parent = 3
    /\ tree.objs[4].acp_nesting_level = 2

====
